---- MODULE Spec2Model ----
(***************************************************************************)
(* The MessagePack codec of src/src/msgpack.hpp: the canonical packer      *)
(* (msgpack_packer), the canonical unpacker (msgpack_unpacker) with the    *)
(* container helpers it inherits from packing::unpacker, and the Object    *)
(* tree with its ownership.                                                *)
(*                                                                         *)
(* Platform the model is written for: LP64 (long and std::size_t are 64    *)
(* bits), little-endian, plain char signed.  A native integer is held as   *)
(* the tuple of its bytes in memory, least significant first, so that      *)
(* write<T>(x) is "the first sizeof(T) bytes of x" as in the code.         *)
(***************************************************************************)
EXTENDS Integers, Sequences, FiniteSets, TLC

VARIABLES
    stream,   \* the bytes of the std::iostream shared by packer (out_) and unpacker (in_)
    pos,      \* read position of in_
    eofbit,   \* in_.eof(): latched by a read past the end
    heap,     \* every allocation made so far, by address (index)
    result,   \* what the last top-level unpack() gave its caller
    op,       \* the operation that produced the current state
    start,    \* history: pos when the last unpack() began
    mark,     \* history: Len(heap) when the last unpack() began
    eof0,     \* history: eofbit when the last unpack() began
    starved,  \* history: the last unpack() issued a read wanting more bytes than were left
    late,     \* history: unpack() frames entered after that starving read
    packed,   \* history: what the packer was asked to write, and where it went
    access    \* the last typed access (getAs) and its outcome

vars == <<stream, pos, eofbit, heap, result, op, start, mark, eof0,
          starved, late, packed, access>>

-----------------------------------------------------------------------------
(* enum object_type *)
NIL == 0
BOOLEAN_T == 1
CHAR == 2
SHORT == 3
INTEGER == 4
LONG == 5
UCHAR == 6
USHORT == 7
UINTEGER == 8
ULONG == 9
FLOAT == 10
DOUBLE == 11
RAW == 12
ARRAY == 13
MAP == 14

ObjectTypes == NIL..MAP

(* namespace bm *)
MP_INT8 == 208
MP_INT16 == 209
MP_INT32 == 210
MP_INT64 == 211
MP_UINT8 == 204
MP_UINT16 == 205
MP_UINT32 == 206
MP_UINT64 == 207
MP_FIXNUM == 0
MP_NEGATIVE_FIXNUM == 224
MP_NULL == 192
MP_FALSE == 194
MP_TRUE == 195
MP_FLOAT == 202
MP_DOUBLE == 203
MP_RAW16 == 218
MP_RAW32 == 219
MP_FIXRAW == 160
MP_ARRAY16 == 220
MP_ARRAY32 == 221
MP_FIXARRAY == 144
MP_MAP16 == 222
MP_MAP32 == 223
MP_FIXMAP == 128
\* variant: the fix-array / fix-map limit taken one too high
MAX_4BIT_m == 15 + 1
MAX_4BIT == 15
\* variant: the fix-raw limit taken one too high
MAX_5BIT_m == 31 + 1
MAX_5BIT == 31
\* variant: the fixnum limit taken one too high
MAX_7BIT_m == 127 + 1
MAX_7BIT == 127
MAX_8BIT == 255
MAX_15BIT == 32767
MAX_16BIT == 65535
MAX_31BIT == 2147483647
\* 0xffffffffL as a 64-bit long
MAX_32BIT == <<255, 255, 255, 255, 0, 0, 0, 0>>

-----------------------------------------------------------------------------
(* Native integers as byte tuples *)

Byte == 0..255

RECURSIVE BitAnd(_, _)
\* a & b on non-negative integers
BitAnd(a, b) ==
    IF a = 0 \/ b = 0 THEN 0
    ELSE (a % 2) * (b % 2) + 2 * BitAnd(a \div 2, b \div 2)

RECURSIVE BitOr(_, _)
\* a | b on non-negative integers
BitOr(a, b) ==
    IF a = 0 THEN b
    ELSE IF b = 0 THEN a
    ELSE (IF a % 2 = 1 \/ b % 2 = 1 THEN 1 ELSE 0) + 2 * BitOr(a \div 2, b \div 2)

\* the 8 bytes of a non-negative n < 2^31
NatBytes(n) ==
    [i \in 1..8 |-> IF i > 4 THEN 0 ELSE (n \div (256 ^ (i - 1))) % 256]

\* the 64-bit two's complement representation of i (conversion to long / size_t)
ToLong(i) ==
    IF i >= 0 THEN NatBytes(i)
    ELSE [k \in 1..8 |-> 255 - NatBytes(-(i + 1))[k]]

\* a <= b on unsigned integers of the same width
ULE(a, b) ==
    \/ a = b
    \/ LET k == CHOOSE j \in 1..Len(a) :
                    /\ a[j] # b[j]
                    /\ \A m \in (j + 1)..Len(a) : a[m] = b[m]
       IN  a[k] < b[k]

\* a <= b on longs
SLE(a, b) ==
    LET na == a[8] >= 128
        nb == b[8] >= 128
    IN  IF na # nb THEN na ELSE ULE(a, b)

\* conversion of a w-byte integer to 64 bits: sign extension for the signed
\* types, zero extension for the unsigned ones
Widen(bytes, signed) ==
    LET w == Len(bytes)
        fill == IF signed /\ bytes[w] >= 128 THEN 255 ELSE 0
    IN  [i \in 1..8 |-> IF i <= w THEN bytes[i] ELSE fill]

\* the value of a little-endian 16-bit field read into a uint16_t
U16(b) == b[1] + 256 * b[2]

\* ... read into an int16_t
S16(b) == IF b[2] >= 128 THEN (b[2] - 256) * 256 + b[1] ELSE b[2] * 256 + b[1]

\* ... the value of a 32-bit field read into an int32_t
S32(b) ==
    (IF b[4] >= 128 THEN b[4] - 256 ELSE b[4]) * 16777216
        + b[3] * 65536 + b[2] * 256 + b[1]

-----------------------------------------------------------------------------
(* msgpack_packer *)

\* packer::write<T>(data): the first sizeof(T) bytes of data
write(width, data) == SubSeq(data, 1, width)

\* msgpack_packer::pack(long): the bytes appended to the stream
packLong(value) ==
    IF SLE(ToLong(0), value)
    THEN IF SLE(value, ToLong(MAX_7BIT))
         THEN <<BitOr(write(1, value)[1], MP_FIXNUM)>>
         ELSE IF SLE(value, ToLong(MAX_8BIT))
         THEN <<MP_UINT8>> \o write(1, value)
         ELSE IF SLE(value, ToLong(MAX_16BIT))
         THEN <<MP_UINT16>> \o write(2, value)
         ELSE IF SLE(value, MAX_32BIT)
         THEN <<MP_UINT32>> \o write(4, value)
         ELSE <<MP_UINT64>> \o write(8, value)
    ELSE IF SLE(ToLong(-(MAX_5BIT + 1)), value)
         THEN <<BitOr(write(1, value)[1], MP_NEGATIVE_FIXNUM)>>
         ELSE IF SLE(ToLong(-(MAX_7BIT + 1)), value)
         THEN <<MP_INT8>> \o write(1, value)
         ELSE IF SLE(ToLong(-(MAX_15BIT + 1)), value)
         THEN <<MP_INT16>> \o write(2, value)
         ELSE IF SLE(ToLong(-MAX_31BIT - 1), value)
         THEN <<MP_INT32>> \o write(4, value)
         ELSE <<MP_INT64>> \o write(8, value)

\* msgpack_packer::pack(const char* data, std::size_t length)
packRaw(data, length) ==
    (IF length <= MAX_5BIT
     THEN <<BitOr(write(1, ToLong(length))[1], MP_FIXRAW)>>
     ELSE IF length <= MAX_16BIT
     THEN <<MP_RAW16>> \o write(2, ToLong(length))
     ELSE <<MP_RAW32>> \o write(4, ToLong(length)))
    \o SubSeq(data, 1, length)

\* msgpack_packer::packArrayHeader(std::size_t& length)
packArrayHeader(length) ==
    IF length <= MAX_4BIT
    THEN <<BitOr(write(1, ToLong(length))[1], MP_FIXARRAY)>>
    ELSE IF length <= MAX_16BIT
    THEN <<MP_ARRAY16>> \o write(2, ToLong(length))
    ELSE <<MP_ARRAY32>> \o write(4, ToLong(length))

\* msgpack_packer::packMapHeader(std::size_t& length)
packMapHeader(length) ==
    IF length <= MAX_4BIT
    THEN <<BitOr(write(1, ToLong(length))[1], MP_FIXMAP)>>
    ELSE IF length <= MAX_16BIT
    THEN <<MP_MAP16>> \o write(2, ToLong(length))
    ELSE <<MP_MAP32>> \o write(4, ToLong(length))

\* variant: the Nil tag written at the width of an int
packNull_m == <<MP_NULL, 0, 0, 0>>

\* msgpack_packer::packNull()
packNull == <<MP_NULL>>

\* packer::pack(const T* item): a null pointer packs as Nil, any other
\* pointer as the long it points to
packPointer(item, target) ==
    IF item = 0 THEN packNull ELSE packLong(target)

\* strlen(item) for the NUL-terminated bytes str that item points to
strlen(str) ==
    (CHOOSE i \in DOMAIN str : str[i] = 0 /\ \A j \in 1..(i - 1) : str[j] # 0) - 1

\* packer::pack(const char* item) on a msgpack_packer: a null pointer packs
\* as Nil, any other as the raw bytes of the string
packCString(item, str) ==
    IF item = 0 THEN packNull ELSE packRaw(str, strlen(str))

\* The argument of a pack call: a long (t = "long", v its bytes), a sequence
\* container (t = "seq", items its elements in iteration order) or an
\* associative container (t = "map", items its <<key, value>> entries in
\* iteration order).
LongItem(v) == [t |-> "long", v |-> v, items |-> <<>>]
SeqItem(items) == [t |-> "seq", v |-> <<>>, items |-> items]
MapItem(items) == [t |-> "map", v |-> <<>>, items |-> items]

\* packer::init_container: the overload taken for the container's value_type
init_container(length, pairs) ==
    IF pairs THEN packMapHeader(length) ELSE packArrayHeader(length)

RECURSIVE pack(_)
RECURSIVE packEach(_, _, _)

\* variant: the entries of an associative container packed value first
packEach_m(items, i, pairs) ==
    IF i > Len(items) THEN <<>>
    ELSE (IF pairs
          THEN pack(items[i][2]) \o pack(items[i][1])
          ELSE pack(items[i]))
         \o packEach(items, i + 1, pairs)

\* the loop of packer::pack(first, last), from element i on;
\* packer::pack(std::pair) for the entries of an associative container
packEach(items, i, pairs) ==
    IF i > Len(items) THEN <<>>
    ELSE (IF pairs
          THEN pack(items[i][1]) \o pack(items[i][2])
          ELSE pack(items[i]))
         \o packEach(items, i + 1, pairs)

\* packer::pack(first, last) on a container's begin() and end()
packRange(items, pairs) ==
    init_container(Len(items), pairs) \o packEach(items, 1, pairs)

\* packer.pack(x): the overload the static type of x selects
pack(x) ==
    IF x.t = "long" THEN packLong(x.v)
    ELSE packRange(x.items, x.t = "map")

-----------------------------------------------------------------------------
(* packing::packer, the generic layer.  A bool is the byte 0 or 1, an int or *)
(* a float the tuple of its 4 bytes, a long or a double the tuple of its 8.  *)

\* packer::writeType: write<char>(t)
writeType(t) == <<t>>

\* packer::packNull()
base_packNull == writeType(NIL)

\* packer::pack(bool)
base_packBool(item) == writeType(BOOLEAN_T) \o write(1, <<item>>)

\* variant: an int written at the width of a short
base_packInt_m(item) == writeType(INTEGER) \o write(2, item)

\* packer::pack(int)
base_packInt(item) == writeType(INTEGER) \o write(4, item)

\* packer::pack(long)
base_packLong(item) == writeType(LONG) \o write(8, item)

\* packer::pack(float)
base_packFloat(item) == writeType(FLOAT) \o write(4, item)

\* packer::pack(double)
base_packDouble(item) == writeType(DOUBLE) \o write(8, item)

\* packer::pack(const char* data, std::size_t length)
base_packRaw(data, length) ==
    writeType(RAW) \o write(8, ToLong(length)) \o SubSeq(data, 1, length)

\* packer::packArrayHeader(std::size_t& length)
base_packArrayHeader(length) == writeType(ARRAY) \o write(8, ToLong(length))

\* packer::packMapHeader(std::size_t& length)
base_packMapHeader(length) == writeType(MAP) \o write(8, ToLong(length))

\* packer::pack(const T* item) on a packing::packer, T = long
base_packPointer(item, target) ==
    IF item = 0 THEN base_packNull ELSE base_packLong(target)

\* packer::pack(const char* item) on a packing::packer
base_packCString(item, str) ==
    IF item = 0 THEN base_packNull ELSE base_packRaw(str, strlen(str))

-----------------------------------------------------------------------------
(* Objects and buffers on the heap *)

\* an Object (kind "obj") or a new[]-allocated byte buffer (kind "buf").
\* val: the native bytes of a scalar payload, or the bytes of a buffer;
\* kids: the std::list<Object*> of an Array, in push_back order;
\* pairs: the entries of a Map's std::multimap<Object*, Object*>, in insertion order;
\* buf, size: value_ and size_ of a Raw; frees: how many times it was deleted.
Alloc(kind, type, val, buf, size) ==
    [kind |-> kind, type |-> type, val |-> val, kids |-> <<>>, pairs |-> <<>>,
     buf |-> buf, size |-> size, frees |-> 0]

\* ObjectImpl<type>(value), ObjectImpl<NIL>()
Scalar(type, val) == Alloc("obj", type, val, 0, 0)

\* new unsigned char[size], holding the bytes data read into it so far
Buffer(data, size) == Alloc("buf", RAW, data, 0, size)

\* ObjectImpl<RAW>(value, size)
RawObj(buf, size) == Alloc("obj", RAW, <<>>, buf, size)

\* ObjectImpl<ARRAY>::add
add(h, ret, o) == [h EXCEPT ![ret].kids = Append(@, o)]

\* ObjectImpl<MAP>::insert
insert(h, ret, key, val) == [h EXCEPT ![ret].pairs = Append(@, <<key, val>>)]

\* Object::isNil(), overridden by ObjectImpl<NIL>
isNil(o) == o.type = NIL

\* the types whose native payload type is signed (type_traits)
SignedTypes == {CHAR, SHORT, INTEGER, LONG}

\* the stored value of an integer Object, converted to long
NumericValue(o) == Widen(o.val, o.type \in SignedTypes)

-----------------------------------------------------------------------------
(* packing::unpacker: reading *)

\* values an uninitialised int32_t local may hold
UninitInt32 == {<<0, 0, 0, 0>>, <<255, 255, 255, 255>>, <<120, 86, 52, 18>>}

\* variant: end of stream noticed only when no byte at all is left
ReadFails_m(len, p, n, eof) == eof \/ p >= len

\* unpacker::read: whether in_.read(...).eof() holds after asking for n bytes
\* at position p of a stream of len bytes whose eofbit was eof
ReadFails(len, p, n, eof) == eof \/ p + n > len

\* unpacker::read<T>(ret) with sizeof(T) = n.  A stream whose eofbit is set
\* reads nothing; a short read takes what is left and sets eofbit.
read(s, c, n) ==
    LET short == c.pos + n > Len(s)
    IN  [ok    |-> ~ReadFails(Len(s), c.pos, n, c.eof),
         bytes |-> [i \in 1..n |-> IF c.pos + i <= Len(s) THEN s[c.pos + i] ELSE 0],
         c     |-> [c EXCEPT !.pos = IF c.eof THEN @
                                     ELSE IF short THEN Len(s) ELSE @ + n,
                             !.eof = @ \/ short,
                             !.starved = @ \/ short]]

\* the three ways a call of unpack() or of a helper ends
Throw(c) == [kind |-> "eos", ptr |-> 0, c |-> c]
Null(c) == [kind |-> "null", ptr |-> 0, c |-> c]
New(c, rec) ==
    [kind |-> "obj", ptr |-> Len(c.heap) + 1,
     c |-> [c EXCEPT !.heap = Append(@, rec)]]

\* read(xVal); return new X(xVal);
readScalar(s, c, n, type) ==
    LET r == read(s, c, n)
    IN  IF r.ok THEN New(r.c, Scalar(type, r.bytes)) ELSE Throw(r.c)

\* unpacker::unpackRaw(int size).  The byte-by-byte loop, in closed form: it
\* fills the buffer when size bytes are left, and otherwise the read that
\* finds the stream exhausted throws, the buffer still allocated.
unpackRaw(s, c, size) ==
    IF size < 0 THEN Null(c)
    ELSE IF c.pos + size <= Len(s) /\ ~c.eof
    THEN LET data == SubSeq(s, c.pos + 1, c.pos + size)
             b == New([c EXCEPT !.pos = @ + size], Buffer(data, size))
         IN  New(b.c, RawObj(b.ptr, size))
    ELSE LET got == IF c.eof THEN <<>> ELSE SubSeq(s, c.pos + 1, Len(s))
             b == New(c, Buffer(got, size))
             r == read(s, [b.c EXCEPT !.pos = IF c.eof THEN @ ELSE Len(s)], 1)
         IN  IF r.ok
             THEN New(r.c, RawObj(b.ptr, size))
             ELSE Throw(r.c)

RECURSIVE unpack(_, _, _)
RECURSIVE arrayLoop(_, _, _, _, _, _)
RECURSIVE mapLoop(_, _, _, _, _, _)

\* unpacker::unpackArray(int size): the loop from index i on
arrayLoop(s, c, ret, i, size, g) ==
    IF i >= size THEN [kind |-> "obj", ptr |-> ret, c |-> c]
    ELSE LET r == unpack(s, c, g)
         IN  IF r.kind = "eos" THEN r
             ELSE arrayLoop(s, [r.c EXCEPT !.heap = add(@, ret, r.ptr)],
                            ret, i + 1, size, g)

\* variant: no test of the sign of size
unpackArray_m(s, c, size, g) ==
    LET a == New(c, Alloc("obj", ARRAY, <<>>, 0, 0))
    IN  arrayLoop(s, a.c, a.ptr, 0, size, g)

\* variant: a count of zero treated like a negative one
unpackArray_z(s, c, size, g) ==
    IF size <= 0 THEN Null(c)
    ELSE LET a == New(c, Alloc("obj", ARRAY, <<>>, 0, 0))
         IN  arrayLoop(s, a.c, a.ptr, 0, size, g)

\* unpacker::unpackArray(int size)
unpackArray(s, c, size, g) ==
    IF size < 0 THEN Null(c)
    ELSE LET a == New(c, Alloc("obj", ARRAY, <<>>, 0, 0))
         IN  arrayLoop(s, a.c, a.ptr, 0, size, g)

\* unpacker::unpackMap(int size): the loop from index i on
mapLoop(s, c, ret, i, size, g) ==
    IF i >= size THEN [kind |-> "obj", ptr |-> ret, c |-> c]
    ELSE LET key == unpack(s, c, g)
         IN  IF key.kind = "eos" THEN key
             ELSE LET val == unpack(s, key.c, g)
                  IN  IF val.kind = "eos" THEN val
                      ELSE mapLoop(s, [val.c EXCEPT !.heap = insert(@, ret, key.ptr, val.ptr)],
                                   ret, i + 1, size, g)

\* unpacker::unpackMap(int size)
unpackMap(s, c, size, g) ==
    IF size < 0 THEN Null(c)
    ELSE LET m == New(c, Alloc("obj", MAP, <<>>, 0, 0))
         IN  mapLoop(s, m.c, m.ptr, 0, size, g)

\* the case labels of the switch in msgpack_unpacker::unpack
SwitchTags ==
    {MP_NULL, MP_FALSE, MP_TRUE, MP_FLOAT, MP_DOUBLE, MP_UINT8, MP_UINT16,
     MP_UINT32, MP_UINT64, MP_INT8, MP_INT16, MP_INT32, MP_INT64, MP_ARRAY16,
     MP_ARRAY32, MP_MAP16, MP_MAP32, MP_RAW16, MP_RAW32}

\* the bit-range tests after the switch
\* ((unsigned char)(value & 0xE0)) == bm::MP_FIXRAW
IsFixRaw(value) == BitAnd(value, 224) = MP_FIXRAW
\* ((unsigned char)(value & 0xE0)) == bm::MP_NEGATIVE_FIXNUM
IsNegativeFixnum(value) == BitAnd(value, 224) = MP_NEGATIVE_FIXNUM
\* variant: the fix-array test with the three-bit mask
IsFixArray_m(value) == BitAnd(value, 224) = BitAnd(MP_FIXARRAY, 224)
\* ((unsigned char)(value & 0xF0)) == bm::MP_FIXARRAY
IsFixArray(value) == BitAnd(value, 240) = MP_FIXARRAY
\* ((unsigned char)(value & 0xF0)) == bm::MP_FIXMAP
IsFixMap(value) == BitAnd(value, 240) = MP_FIXMAP
\* value <= 127
IsFixnum(value) == value <= 127

\* variant: a negative fixnum constructed as a Char, like the positive one
unpackFix_m(s, c, value, g) ==
    IF IsFixRaw(value) THEN unpackRaw(s, c, value - MP_FIXRAW)
    ELSE IF IsNegativeFixnum(value)
    THEN New(c, Scalar(CHAR, write(1, ToLong(BitAnd(value, 31) - 32))))
    ELSE IF IsFixArray(value) THEN unpackArray(s, c, value - MP_FIXARRAY, g)
    ELSE IF IsFixMap(value) THEN unpackMap(s, c, value - MP_FIXMAP, g)
    ELSE IF IsFixnum(value) THEN New(c, Scalar(CHAR, <<value>>))
    ELSE Null(c)

\* the tail of msgpack_unpacker::unpack, after the switch: the bit-range tests
unpackFix(s, c, value, g) ==
    IF IsFixRaw(value) THEN unpackRaw(s, c, value - MP_FIXRAW)
    ELSE IF IsNegativeFixnum(value)
    THEN New(c, Scalar(INTEGER, write(4, ToLong(BitAnd(value, 31) - 32))))
    ELSE IF IsFixArray(value) THEN unpackArray(s, c, value - MP_FIXARRAY, g)
    ELSE IF IsFixMap(value) THEN unpackMap(s, c, value - MP_FIXMAP, g)
    ELSE IF IsFixnum(value) THEN New(c, Scalar(CHAR, <<value>>))
    ELSE Null(c)

\* msgpack_unpacker::unpack().  g: what the uninitialised iVal holds.
unpack(s, c, g) ==
    LET c0 == [c EXCEPT !.late = IF c.starved THEN @ + 1 ELSE @]
        h == read(s, c0, 1)
        value == h.bytes[1]
        f2 == read(s, h.c, 2)
        f4 == read(s, h.c, 4)
    IN  IF ~h.ok THEN Throw(h.c)
        ELSE CASE value = MP_NULL -> New(h.c, Scalar(NIL, <<>>))
               [] value = MP_FALSE -> New(h.c, Scalar(BOOLEAN_T, <<0>>))
               [] value = MP_TRUE -> New(h.c, Scalar(BOOLEAN_T, <<1>>))
               [] value = MP_FLOAT -> readScalar(s, h.c, 4, FLOAT)
               [] value = MP_DOUBLE -> readScalar(s, h.c, 8, DOUBLE)
               [] value = MP_UINT8 -> readScalar(s, h.c, 1, UCHAR)
               [] value = MP_UINT16 -> readScalar(s, h.c, 2, USHORT)
               [] value = MP_UINT32 -> readScalar(s, h.c, 4, UINTEGER)
               [] value = MP_UINT64 -> readScalar(s, h.c, 8, ULONG)
               [] value = MP_INT8 -> readScalar(s, h.c, 1, CHAR)
               [] value = MP_INT16 -> readScalar(s, h.c, 2, SHORT)
               [] value = MP_INT32 ->
                    \* read(uiVal); return new Int(iVal);
                    IF f4.ok THEN New(f4.c, Scalar(INTEGER, g)) ELSE Throw(f4.c)
               [] value = MP_INT64 -> readScalar(s, h.c, 8, LONG)
               [] value = MP_ARRAY16 ->
                    IF f2.ok THEN unpackArray(s, f2.c, S16(f2.bytes), g) ELSE Throw(f2.c)
               [] value = MP_ARRAY32 ->
                    IF f4.ok THEN unpackArray(s, f4.c, S32(f4.bytes), g) ELSE Throw(f4.c)
               [] value = MP_MAP16 ->
                    IF f2.ok THEN unpackMap(s, f2.c, S16(f2.bytes), g) ELSE Throw(f2.c)
               [] value = MP_MAP32 ->
                    IF f4.ok THEN unpackMap(s, f4.c, S32(f4.bytes), g) ELSE Throw(f4.c)
               [] value = MP_RAW16 ->
                    IF f2.ok THEN unpackRaw(s, f2.c, U16(f2.bytes)) ELSE Throw(f2.c)
               [] value = MP_RAW32 ->
                    IF f4.ok THEN unpackRaw(s, f4.c, S32(f4.bytes)) ELSE Throw(f4.c)
               [] OTHER -> unpackFix(s, h.c, value, g)

-----------------------------------------------------------------------------
(* packing::unpacker::unpack, the generic layer *)

\* throw unpack_exception("Unexpected data type")
Unexpected(c) == [kind |-> "unexpected", ptr |-> 0, c |-> c]

\* the result kinds that are a thrown unpack_exception
Thrown == {"eos", "unexpected"}

RECURSIVE base_unpack(_, _)
RECURSIVE base_arrayLoop(_, _, _, _, _)
RECURSIVE base_mapLoop(_, _, _, _, _)

\* unpacker::unpackArray(int size) on a packing::unpacker: the loop from
\* index i on, unpack() being unpacker::unpack
base_arrayLoop(s, c, ret, i, size) ==
    IF i >= size THEN [kind |-> "obj", ptr |-> ret, c |-> c]
    ELSE LET r == base_unpack(s, c)
         IN  IF r.kind \in Thrown THEN r
             ELSE base_arrayLoop(s, [r.c EXCEPT !.heap = add(@, ret, r.ptr)],
                                 ret, i + 1, size)

\* unpacker::unpackArray(int size) on a packing::unpacker
base_unpackArray(s, c, size) ==
    IF size < 0 THEN Null(c)
    ELSE LET a == New(c, Alloc("obj", ARRAY, <<>>, 0, 0))
         IN  base_arrayLoop(s, a.c, a.ptr, 0, size)

\* unpacker::unpackMap(int size) on a packing::unpacker: the loop from index i on
base_mapLoop(s, c, ret, i, size) ==
    IF i >= size THEN [kind |-> "obj", ptr |-> ret, c |-> c]
    ELSE LET key == base_unpack(s, c)
         IN  IF key.kind \in Thrown THEN key
             ELSE LET val == base_unpack(s, key.c)
                  IN  IF val.kind \in Thrown THEN val
                      ELSE base_mapLoop(s, [val.c EXCEPT !.heap = insert(@, ret, key.ptr, val.ptr)],
                                        ret, i + 1, size)

\* unpacker::unpackMap(int size) on a packing::unpacker
base_unpackMap(s, c, size) ==
    IF size < 0 THEN Null(c)
    ELSE LET m == New(c, Alloc("obj", MAP, <<>>, 0, 0))
         IN  base_mapLoop(s, m.c, m.ptr, 0, size)

\* unpacker::unpack().  The std::size_t length read for RAW, ARRAY and MAP is
\* converted to the int parameter of the helper: its low 32 bits, signed.
base_unpack(s, c) ==
    LET c0 == [c EXCEPT !.late = IF c.starved THEN @ + 1 ELSE @]
        h == read(s, c0, 1)
        type == h.bytes[1]
        length == read(s, h.c, 8)
    IN  IF ~h.ok THEN Throw(h.c)
        ELSE CASE type = NIL -> New(h.c, Scalar(NIL, <<>>))
               [] type = BOOLEAN_T -> readScalar(s, h.c, 1, BOOLEAN_T)
               [] type = FLOAT -> readScalar(s, h.c, 4, FLOAT)
               [] type = DOUBLE -> readScalar(s, h.c, 8, DOUBLE)
               [] type = CHAR -> readScalar(s, h.c, 1, CHAR)
               [] type = SHORT -> readScalar(s, h.c, 2, SHORT)
               [] type = INTEGER -> readScalar(s, h.c, 4, INTEGER)
               [] type = LONG -> readScalar(s, h.c, 8, LONG)
               [] type = UCHAR -> readScalar(s, h.c, 1, UCHAR)
               [] type = USHORT -> readScalar(s, h.c, 2, USHORT)
               [] type = UINTEGER -> readScalar(s, h.c, 4, UINTEGER)
               [] type = ULONG -> readScalar(s, h.c, 8, ULONG)
               [] type = RAW ->
                    IF length.ok
                    THEN unpackRaw(s, length.c, S32(write(4, length.bytes)))
                    ELSE Throw(length.c)
               [] type = ARRAY ->
                    IF length.ok
                    THEN base_unpackArray(s, length.c, S32(write(4, length.bytes)))
                    ELSE Throw(length.c)
               [] type = MAP ->
                    IF length.ok
                    THEN base_unpackMap(s, length.c, S32(write(4, length.bytes)))
                    ELSE Throw(length.c)
               [] OTHER -> Unexpected(h.c)

-----------------------------------------------------------------------------
(* Destruction *)

\* variant: a Map destructor that deletes the keys only
MapDtor_m(o) == [i \in 1..Len(o.pairs) |-> o.pairs[i][1]]

\* the pointers each destructor deletes, in order
ArrayDtor(o) == o.kids
MapDtor(o) ==
    [i \in 1..(2 * Len(o.pairs)) |-> o.pairs[(i + 1) \div 2][2 - (i % 2)]]
RawDtor(o) == <<o.buf>>

\* what a node owns: the pointers its destructor deletes
Owned(o) ==
    IF o.kind # "obj" THEN <<>>
    ELSE IF o.type = ARRAY THEN ArrayDtor(o)
    ELSE IF o.type = MAP THEN MapDtor(o)
    ELSE IF o.type = RAW THEN RawDtor(o)
    ELSE <<>>

RECURSIVE destroy(_, _)
RECURSIVE destroyRange(_, _, _, _)

\* delete p: the destructor of *p runs (deleting what it owns), then *p is freed;
\* deleting a null pointer does nothing
destroy(h, p) ==
    IF p = 0 THEN h
    ELSE destroyRange([h EXCEPT ![p].frees = @ + 1], Owned(h[p]), 1,
                      Len(Owned(h[p])))

\* the destructor's loop over ps[lo..hi]: the pointers are deleted in order,
\* first to last.  The range is halved, and the heap left by the first half
\* is bound through a singleton set, only to keep the evaluation shallow.
destroyRange(h, ps, lo, hi) ==
    IF lo > hi THEN h
    ELSE IF lo = hi THEN destroy(h, ps[lo])
    ELSE CHOOSE done \in
             {destroyRange(first, ps, ((lo + hi) \div 2) + 1, hi) :
                  first \in {destroyRange(h, ps, lo, (lo + hi) \div 2)}} : TRUE

RECURSIVE Tree(_, _)
\* the nodes reachable from p through the containers' element pointers
Tree(h, p) ==
    IF p = 0 THEN {}
    ELSE {p} \cup UNION {Tree(h, h[p].kids[i]) : i \in DOMAIN h[p].kids}
             \cup UNION {Tree(h, h[p].pairs[i][1]) \cup Tree(h, h[p].pairs[i][2]) :
                            i \in DOMAIN h[p].pairs}
             \cup (IF h[p].buf = 0 THEN {} ELSE {h[p].buf})

-----------------------------------------------------------------------------
(* Typed access *)

Payload(o) ==
    [val |-> o.val, kids |-> o.kids, pairs |-> o.pairs, buf |-> o.buf, size |-> o.size]

NoPayload == [val |-> <<>>, kids |-> <<>>, pairs |-> <<>>, buf |-> 0, size |-> 0]

\* variant: the cast without the type check
getAs_m(o, type) == [kind |-> "value", val |-> Payload(o)]

\* Object::getAs<type>() and, through it, getValue<type>()
getAs(o, type) ==
    IF type # o.type
    THEN [kind |-> "bad_cast", val |-> NoPayload]
    ELSE [kind |-> "value", val |-> Payload(o)]

-----------------------------------------------------------------------------
(* Bounds and inputs *)

\* longest byte string the unpacker is started on
MaxLen == 4
\* values handed to the packer in one run
MaxPacks == 2
\* headers and raws handed to the packer in one run
MaxHdrs == 1

\* bytes the arbitrary input streams are made of: 0x01 fixnum 1, 0x81 fix-map 1,
\* 0x92 fix-array 2, 0xA1 fix-raw 1, 0xC1 reserved, 0xCD uint16,
\* 0xDC array16, 0xFF negative fixnum -1
Alphabet == {1, 129, 146, 161, 193, 205, 220, 255}

ByteStrings == UNION {[1..n -> Alphabet] : n \in 0..MaxLen}

\* longs handed to pack(long): the boundaries of every size class
LongValues ==
    {ToLong(i) : i \in {0, 1, 127, 128, 255, 256, 65535, 65536, 2147483647,
                        -1, -32, -33, -128, -129, -32768, -32769}}
    \cup {<<0, 0, 0, 128, 0, 0, 0, 0>>,                 \* 2^31
          <<255, 255, 255, 255, 0, 0, 0, 0>>,           \* 2^32 - 1
          <<0, 0, 0, 0, 1, 0, 0, 0>>,                   \* 2^32
          <<0, 0, 0, 128, 255, 255, 255, 255>>,         \* -2^31
          <<255, 255, 255, 127, 255, 255, 255, 255>>}   \* -2^31 - 1

\* lengths handed to pack(data, length): the boundaries of every size class
RawLengths == {0, 1, 2, 30, 31, 32, 33, 255, 256, 65535, 65536}

\* counts handed to the header packers
Counts == {0, 1, 15, 16, 17, 255, 256, 32767, 32768, 65535, 65536, 65537}

\* containers and longs handed to pack() in one run
MaxTrees == 1

\* the longs held by the containers: a fixnum, a uint16 and an int32
LeafLongs == {ToLong(1), ToLong(300), ToLong(-40000)}
Leaves == {LongItem(v) : v \in LeafLongs}

\* std::vector<T> (std::list<T>, ...) of up to n elements drawn from S
SeqsOf(S, n) == {SeqItem(q) : q \in UNION {[1..k -> S] : k \in 0..n}}

\* std::multimap<long, T> of up to n entries, keys drawn from K and values
\* from S; iteration goes by ascending key
MapsOf(K, S, n) ==
    {MapItem(q) : q \in {e \in UNION {[1..k -> K \X S] : k \in 0..n} :
                            \A i \in 1..(Len(e) - 1) : SLE(e[i][1].v, e[i + 1][1].v)}}

\* what the caller packs: a long, a vector<long> (also of 16 and 17
\* elements), a multimap<long, long>, a multimap<long, vector<long>>, a
\* vector of those (an Array containing a Map containing an Array)
MapsOfSeqs == MapsOf({LongItem(ToLong(1))}, SeqsOf(Leaves, 1), 1)
Values ==
    Leaves
    \cup SeqsOf(Leaves, 2)
    \cup {SeqItem([i \in 1..n |-> LongItem(ToLong(i))]) : n \in {16, 17}}
    \cup MapsOf({LongItem(ToLong(1)), LongItem(ToLong(300))}, Leaves, 2)
    \cup MapsOfSeqs
    \cup SeqsOf(MapsOfSeqs, 2)

\* scalars and pointers handed to the packers in one run
MaxScalars == 2

\* arguments of the generic pack overloads, as their native bytes:
\* false, true
Bools == {0, 1}
\* 0, 1, -1, 300, INT_MAX, INT_MIN
Ints == {write(4, ToLong(i)) : i \in {0, 1, -1, 300, 2147483647}}
            \cup {<<0, 0, 0, 128>>}
\* 0, 127, -1, 2^32, LONG_MAX
BaseLongs == {ToLong(0), ToLong(127), ToLong(-1), <<0, 0, 0, 0, 1, 0, 0, 0>>,
              <<255, 255, 255, 255, 255, 255, 255, 127>>}
\* 0.0f, 1.0f, -2.5f, a NaN
Floats == {<<0, 0, 0, 0>>, <<0, 0, 128, 63>>, <<0, 0, 32, 192>>, <<0, 0, 192, 127>>}
\* 0.0, 1.0, -2.5
Doubles == {<<0, 0, 0, 0, 0, 0, 0, 0>>, <<0, 0, 0, 0, 0, 0, 240, 63>>,
            <<0, 0, 0, 0, 0, 0, 4, 192>>}

\* a const long* handed to pack: null (0) or the address (1) of a long
Pointers == {0, 1}
PointerTargets == {ToLong(5), ToLong(300)}
\* the NUL-terminated strings a non-null const char* points to: "" and "hi"
CStrings == {<<0>>, <<104, 105, 0>>}

\* A stream holding one array or map in a given header form ("fix", "16" or
\* "32"), its count n followed by n (for a map 2n) two-byte values.  The m-th
\* value is a uint8, an int8, a fix-array of one fixnum or a fix-raw of one
\* byte, by pattern: pattern 0 repeats the uint8 7, patterns 1..3 cycle
\* through the four kinds with payload m % 128.  Under pattern 4 every value
\* is the one-byte positive fixnum m % 128.
ValueTagAt(pattern, m) ==
    IF pattern = 0 THEN MP_UINT8
    ELSE CASE (m + pattern) % 4 = 0 -> MP_UINT8
           [] (m + pattern) % 4 = 1 -> MP_INT8
           [] (m + pattern) % 4 = 2 -> MP_FIXARRAY + 1
           [] (m + pattern) % 4 = 3 -> MP_FIXRAW + 1
ValueByteAt(pattern, m) == IF pattern = 0 THEN 7 ELSE m % 128

\* the encodings of count values, one after the other
ValueBytes(pattern, count) ==
    IF pattern = 4 THEN [j \in 1..count |-> j % 128]
    ELSE [j \in 1..(2 * count) |->
             IF j % 2 = 1 THEN ValueTagAt(pattern, (j + 1) \div 2)
             ELSE ValueByteAt(pattern, j \div 2)]

\* a container header of the given form declaring n
FormHeader(form, n, fix, tag16, tag32) ==
    CASE form = "fix" -> <<fix + n>>
      [] form = "16" -> <<tag16, n % 256, n \div 256>>
      [] form = "32" -> <<tag32, n % 256, (n \div 256) % 256,
                          (n \div 65536) % 256, n \div 16777216>>

\* the header forms and the counts declared in them
DeclaredCounts ==
    ({"fix"} \X {0, 1, 2, 15})
    \cup ({"16"} \X {0, 3, 16, 40, 32768})
    \cup ({"32"} \X {0, 3, 17})

\* the value patterns a declared count is filled with: the counts beyond the
\* signed 16-bit range get one-byte values only
PatternsOf(n) == IF n > MAX_15BIT THEN {4} ELSE 0..4

\* a header form and a declared count, with a pattern to fill it
Declared ==
    {dp \in DeclaredCounts \X (0..4) : dp[2] \in PatternsOf(dp[1][2])}

\* the streams the decoder is started on, each with its description
DecodeInputs ==
    {[kind |-> "array_stream", form |-> dp[1][1], n |-> dp[1][2],
      pattern |-> dp[2],
      bytes |-> FormHeader(dp[1][1], dp[1][2], MP_FIXARRAY, MP_ARRAY16,
                           MP_ARRAY32)
                    \o ValueBytes(dp[2], dp[1][2])] : dp \in Declared}
    \cup
    {[kind |-> "map_stream", form |-> dp[1][1], n |-> dp[1][2],
      pattern |-> dp[2],
      bytes |-> FormHeader(dp[1][1], dp[1][2], MP_FIXMAP, MP_MAP16, MP_MAP32)
                    \o ValueBytes(dp[2], 2 * dp[1][2])] : dp \in Declared}

\* length fields with the sign bit of their width set, and two without
Fields16 == {<<0, 128>>, <<1, 128>>, <<255, 255>>, <<1, 0>>}
Fields32 == {<<0, 0, 0, 128>>, <<255, 255, 255, 255>>, <<1, 0, 0, 0>>}
\* std::size_t lengths: 2^31, 2^32-1, SIZE_MAX, 2^32+1 and 1
Fields64 == {<<0, 0, 0, 128, 0, 0, 0, 0>>, <<255, 255, 255, 255, 0, 0, 0, 0>>,
             <<255, 255, 255, 255, 255, 255, 255, 255>>,
             <<1, 0, 0, 0, 1, 0, 0, 0>>, <<1, 0, 0, 0, 0, 0, 0, 0>>}
\* what follows the header
Tails == {<<>>, <<1>>, <<1, 2>>}

\* streams that begin with a length-carrying header of either layer, or with
\* a fix-array whose first child is such a header
LengthStreams ==
    {<<t>> \o f \o tail : t \in {MP_ARRAY16, MP_MAP16}, f \in Fields16, tail \in Tails}
    \cup {<<t>> \o f \o tail :
            t \in {MP_ARRAY32, MP_MAP32, MP_RAW32}, f \in Fields32, tail \in Tails}
    \cup {<<t>> \o f \o tail : t \in {RAW, ARRAY, MAP}, f \in Fields64, tail \in Tails}
    \cup {<<MP_FIXARRAY + 2, t>> \o f \o <<5>> :
            t \in {MP_ARRAY32, MP_MAP32, MP_RAW32}, f \in Fields32}

\* every tag byte, followed by enough zero bytes for the value it announces
TagStreams == {<<t>> \o [i \in 1..31 |-> 0] : t \in Byte}

\* the caller's buffer of n bytes
RawData(n) == [i \in 1..n |-> (7 * i) % 256]

\* one encoding of an Object of every type
AccessStreams ==
    {<<192>>, <<195>>, <<5>>, <<209, 1, 2>>, <<224>>,
     <<211, 1, 2, 3, 4, 5, 6, 7, 8>>, <<204, 200>>, <<205, 1, 2>>,
     <<206, 1, 2, 3, 4>>, <<207, 1, 2, 3, 4, 5, 6, 7, 8>>,
     <<202, 0, 0, 128, 63>>, <<203, 0, 0, 0, 0, 0, 0, 240, 63>>,
     <<162, 1, 2>>, <<146, 1, 193>>, <<129, 1, 162, 3, 4>>}

\* the types T that `unpacker >> v` can be instantiated with: those with a
\* type_cast (there is none for NIL)
ExtractTypes == ObjectTypes \ {NIL}

\* streams typed extraction is started on: one encoded value of every type,
\* a reserved tag, nothing, a truncated value, and two values in a row
ExtractStreams ==
    AccessStreams \cup {<<193>>, <<>>, <<205, 1>>, <<5, 195>>, <<146, 1>>}

-----------------------------------------------------------------------------
(* The state machine *)

NoAccess == [ptr |-> 0, type |-> NIL, before |-> Scalar(NIL, <<>>),
             out |-> [kind |-> "none", val |-> NoPayload]]

Start(s) ==
    /\ stream = s
    /\ pos = 0
    /\ eofbit = FALSE
    /\ heap = <<>>
    /\ result = [kind |-> "none", ptr |-> 0]
    /\ op = "init"
    /\ start = 0
    /\ mark = 0
    /\ eof0 = FALSE
    /\ starved = FALSE
    /\ late = 0
    /\ packed = <<>>
    /\ access = NoAccess

\* an unpacker constructed on a stream holding arbitrary bytes
Init == \E s \in ByteStrings : Start(s)

\* packer and unpacker constructed on an empty stream
InitPack == Start(<<>>)

\* an unpacker constructed on one encoded value
InitAccess == \E s \in AccessStreams : Start(s)

\* an unpacker constructed on a stream holding one array or map; packed
\* records what the stream was built from
InitDecode ==
    \E d \in DecodeInputs :
        /\ stream = d.bytes
        /\ pos = 0
        /\ eofbit = FALSE
        /\ heap = <<>>
        /\ result = [kind |-> "none", ptr |-> 0]
        /\ op = "init"
        /\ start = 0
        /\ mark = 0
        /\ eof0 = FALSE
        /\ starved = FALSE
        /\ late = 0
        /\ packed = <<[kind |-> d.kind, long |-> ToLong(0), n |-> d.n,
                       from |-> 0, to |-> Len(d.bytes),
                       form |-> d.form, pattern |-> d.pattern]>>
        /\ access = NoAccess

\* an unpacker constructed on a stream that typed extraction reads from
InitExtract == \E s \in ExtractStreams : Start(s)

\* an unpacker of either layer constructed on a stream that begins with a
\* length-carrying header
InitLength == \E s \in LengthStreams : Start(s)

\* an unpacker constructed on a stream that begins with any tag byte
InitTag == \E s \in TagStreams : Start(s)

\* the caller calls unpack() once
Unpack ==
    \E g \in UninitInt32 :
        \E r \in {unpack(stream,
                        [pos |-> pos, eof |-> eofbit, heap |-> heap,
                         starved |-> FALSE, late |-> 0], g)} :
            /\ pos' = r.c.pos
            /\ eofbit' = r.c.eof
            /\ heap' = r.c.heap
            /\ result' = [kind |-> r.kind, ptr |-> r.ptr]
            /\ op' = "unpack"
            /\ start' = pos
            /\ mark' = Len(heap)
            /\ eof0' = eofbit
            /\ starved' = r.c.starved
            /\ late' = r.c.late
            /\ UNCHANGED <<stream, packed, access>>

\* the caller deletes the Object unpack() returned
Delete ==
    /\ result.kind = "obj"
    /\ heap[result.ptr].frees = 0
    /\ heap' = destroy(heap, result.ptr)
    /\ op' = "delete"
    /\ UNCHANGED <<stream, pos, eofbit, result, start, mark, eof0, starved,
                   late, packed, access>>

\* the caller asks a node of the returned tree for its value as type t
GetAs ==
    /\ result.kind = "obj"
    /\ heap[result.ptr].frees = 0
    /\ \E p \in Tree(heap, result.ptr), t \in ObjectTypes :
        /\ heap[p].kind = "obj"
        /\ access' = [ptr |-> p, type |-> t, before |-> heap[p],
                      out |-> getAs(heap[p], t)]
    /\ op' = "getAs"
    /\ UNCHANGED <<stream, pos, eofbit, heap, result, start, mark, eof0,
                   starved, late, packed>>

\* how `unpacker >> v` ends when getAs<T>() throws std::bad_cast: the
\* operator is declared throw(unpack_exception), so std::unexpected() ends the
\* program, unless the build does not enforce exception specifications and
\* the bad_cast reaches the caller
BadCastOutcomes == {"terminate", "bad_cast"}

\* what the operator returns after `delete obj`: it has no return statement,
\* so the reference the caller receives is the unpacker or indeterminate
MissingReturn == {"unpacker", "indeterminate"}

\* `unpacker >> v` with T of object type t: obj = u.unpack(); if obj is not
\* null, v = obj->getAs<T>() and then delete obj; else unpack_exception
Extract ==
    \E t \in ExtractTypes, g \in UninitInt32 :
        \E r \in {unpack(stream,
                        [pos |-> pos, eof |-> eofbit, heap |-> heap,
                         starved |-> FALSE, late |-> 0], g)} :
            \E a \in {IF r.kind = "obj" THEN getAs(r.c.heap[r.ptr], t)
                       ELSE [kind |-> "none", val |-> NoPayload]} :
                /\ pos' = r.c.pos
                /\ eofbit' = r.c.eof
                /\ start' = pos
                /\ mark' = Len(heap)
                /\ eof0' = eofbit
                /\ starved' = r.c.starved
                /\ late' = r.c.late
                /\ op' = "extract"
                /\ access' = [ptr |-> r.ptr, type |-> t,
                              before |-> IF r.kind = "obj" THEN r.c.heap[r.ptr]
                                         ELSE NoAccess.before,
                              out |-> IF a.kind = "value" THEN a
                                      ELSE [kind |-> "none", val |-> NoPayload]]
                /\ CASE r.kind = "obj" /\ a.kind = "value" ->
                            \* v assigned, obj deleted, end of function reached
                            /\ heap' = destroy(r.c.heap, r.ptr)
                            /\ \E ret \in MissingReturn :
                                 result' = [kind |-> "value", ptr |-> r.ptr,
                                            ret |-> ret]
                     [] r.kind = "obj" /\ a.kind = "bad_cast" ->
                            \* the exception leaves the operator before delete obj
                            /\ heap' = r.c.heap
                            /\ \E k \in BadCastOutcomes :
                                 result' = [kind |-> k, ptr |-> r.ptr,
                                            ret |-> "none"]
                     [] r.kind = "null" ->
                            \* throw unpack_exception("Unable to get object from stream")
                            /\ heap' = r.c.heap
                            /\ result' = [kind |-> "no_object", ptr |-> 0,
                                          ret |-> "none"]
                     [] OTHER ->
                            \* unpack() threw unpack_exception
                            /\ heap' = r.c.heap
                            /\ result' = [kind |-> r.kind, ptr |-> 0,
                                          ret |-> "none"]
                /\ UNCHANGED <<stream, packed>>

\* one pack call appends bytes to out_; packed records the call
Emit(bound, kind, long, n, bytes) ==
    /\ Len(packed) < bound
    /\ stream' = stream \o bytes
    /\ packed' = Append(packed, [kind |-> kind, long |-> long, n |-> n,
                                  from |-> Len(stream),
                                  to |-> Len(stream) + Len(bytes)])
    /\ op' = "pack"
    /\ UNCHANGED <<pos, eofbit, heap, result, start, mark, eof0, starved,
                   late, access>>

\* packer.pack(long)
PackLong ==
    \E v \in LongValues :
        \E bytes \in {packLong(v)} : Emit(MaxPacks, "long", v, 0, bytes)

\* packer.pack(data, length), data a buffer of length bytes
PackRaw ==
    \E n \in RawLengths :
        \E bytes \in {packRaw(RawData(n), n)} :
            Emit(MaxHdrs, "raw", ToLong(0), n, bytes)

\* packer.packArrayHeader(length)
PackArrayHeader ==
    \E n \in Counts :
        \E bytes \in {packArrayHeader(n)} :
            Emit(MaxHdrs, "array", ToLong(0), n, bytes)

\* packer.packMapHeader(length)
PackMapHeader ==
    \E n \in Counts :
        \E bytes \in {packMapHeader(n)} :
            Emit(MaxHdrs, "map", ToLong(0), n, bytes)

\* packer.pack(x) for a long or a container x
PackValue ==
    \E x \in Values :
        \E bytes \in {pack(x)} :
            /\ Len(packed) < MaxTrees
            /\ stream' = stream \o bytes
            /\ packed' = Append(packed, [kind |-> "value", long |-> ToLong(0),
                                          n |-> 0, from |-> Len(stream),
                                          to |-> Len(stream) + Len(bytes),
                                          value |-> x])
            /\ op' = "pack"
            /\ UNCHANGED <<pos, eofbit, heap, result, start, mark, eof0,
                           starved, late, access>>

\* A stream carries one protocol: the program constructs either a
\* msgpack_packer and a msgpack_unpacker on it, or a packing::packer and a
\* packing::unpacker.  Which one shows in what has been packed.
OnMsgpack == \A k \in DOMAIN packed : packed[k].kind \in {"pointer", "cstring"}
OnBase == \A k \in DOMAIN packed : packed[k].kind \notin {"pointer", "cstring"}

\* msgpack_packer.pack(item) for a const long* item
PackPointer ==
    /\ OnMsgpack
    /\ \E item \in Pointers, target \in PointerTargets :
        \E bytes \in {packPointer(item, target)} :
            Emit(MaxScalars, "pointer", target, item, bytes)

\* msgpack_packer.pack(item) for a const char* item
PackCString ==
    /\ OnMsgpack
    /\ \E item \in Pointers, str \in CStrings :
        \E bytes \in {packCString(item, str)} :
            Emit(MaxScalars, "cstring", ToLong(0), item, bytes)

\* msgpack_unpacker.unpack() on a stream written by a msgpack_packer
MsgpackUnpack == OnMsgpack /\ Unpack

\* packer.pack(item) for a const long* item, on a packing::packer
BasePackPointer ==
    /\ OnBase
    /\ \E item \in Pointers, target \in PointerTargets :
        \E bytes \in {base_packPointer(item, target)} :
            Emit(MaxScalars, "base_pointer", target, item, bytes)

\* packer.pack(item) for a const char* item, on a packing::packer
BasePackCString ==
    /\ OnBase
    /\ \E item \in Pointers, str \in CStrings :
        \E bytes \in {base_packCString(item, str)} :
            Emit(MaxScalars, "base_cstring", ToLong(0), item, bytes)

\* one pack call on a packing::packer appends bytes to out_; packed records
\* the call and its argument
BaseEmit(kind, arg, bytes) ==
    /\ OnBase
    /\ Len(packed) < MaxScalars
    /\ stream' = stream \o bytes
    /\ packed' = Append(packed, [kind |-> kind, long |-> ToLong(0), n |-> 0,
                                  from |-> Len(stream),
                                  to |-> Len(stream) + Len(bytes),
                                  arg |-> arg])
    /\ op' = "pack"
    /\ UNCHANGED <<pos, eofbit, heap, result, start, mark, eof0, starved,
                   late, access>>

\* packer.pack(bool)
BasePackBool ==
    \E item \in Bools : BaseEmit("base_bool", <<item>>, base_packBool(item))

\* packer.pack(int)
BasePackInt ==
    \E item \in Ints : BaseEmit("base_int", item, base_packInt(item))

\* packer.pack(long)
BasePackLong ==
    \E item \in BaseLongs : BaseEmit("base_long", item, base_packLong(item))

\* packer.pack(float)
BasePackFloat ==
    \E item \in Floats : BaseEmit("base_float", item, base_packFloat(item))

\* packer.pack(double)
BasePackDouble ==
    \E item \in Doubles : BaseEmit("base_double", item, base_packDouble(item))

\* the caller calls unpack() once on a packing::unpacker
BaseUnpack ==
    /\ OnBase
    /\ \E r \in {base_unpack(stream,
                          [pos |-> pos, eof |-> eofbit, heap |-> heap,
                           starved |-> FALSE, late |-> 0])} :
        /\ pos' = r.c.pos
        /\ eofbit' = r.c.eof
        /\ heap' = r.c.heap
        /\ result' = [kind |-> r.kind, ptr |-> r.ptr]
        /\ op' = "base_unpack"
        /\ start' = pos
        /\ mark' = Len(heap)
        /\ eof0' = eofbit
        /\ starved' = r.c.starved
        /\ late' = r.c.late
        /\ UNCHANGED <<stream, packed, access>>

\* the caller decodes the one value the stream holds
DecodeOnce == op = "init" /\ Unpack

\* the caller decodes one value with a packing::unpacker
BaseDecodeOnce == op = "init" /\ BaseUnpack

Next == Unpack \/ Delete
Spec == Init /\ [][Next]_vars

NextAccess == Unpack \/ GetAs
SpecAccess == InitAccess /\ [][NextAccess]_vars

NextInt == PackLong \/ Unpack
SpecInt == InitPack /\ [][NextInt]_vars

NextHdr == PackRaw \/ PackArrayHeader \/ PackMapHeader \/ Unpack
SpecHdr == InitPack /\ [][NextHdr]_vars

NextTree == PackValue \/ Unpack
SpecTree == InitPack /\ [][NextTree]_vars

NextGen ==
    \/ PackPointer
    \/ PackCString
    \/ BasePackPointer
    \/ BasePackCString
    \/ BasePackBool
    \/ BasePackInt
    \/ BasePackLong
    \/ BasePackFloat
    \/ BasePackDouble
    \/ MsgpackUnpack
    \/ BaseUnpack
SpecGen == InitPack /\ [][NextGen]_vars

NextDecode == DecodeOnce \/ Delete
SpecDecode == InitDecode /\ [][NextDecode]_vars

NextLength == DecodeOnce \/ BaseDecodeOnce
SpecLength == InitLength /\ [][NextLength]_vars

NextTag == DecodeOnce \/ Delete
SpecTag == InitTag /\ [][NextTag]_vars

NextExtract == Extract
SpecExtract == InitExtract /\ [][NextExtract]_vars

-----------------------------------------------------------------------------
(* Properties *)

\* the bytes the k-th pack call appended
Written(k) == SubSeq(stream, packed[k].from + 1, packed[k].to)

\* the last unpack() began, with the stream readable, where the k-th packed
\* item begins
UnpackedItem(k) ==
    /\ op = "unpack"
    /\ ~eof0
    /\ k \in DOMAIN packed
    /\ packed[k].from = start

\* bytes i..8 of the long v all equal b
High(v, i, b) == \A j \in i..8 : v[j] = b

\* C1: unpack applied to the bytes pack(long v) wrote returns an Object whose
\* stored numeric value is v.
C1_IntegerRoundTrip ==
    \A k \in DOMAIN packed :
        UnpackedItem(k) /\ packed[k].kind = "long"
            => /\ result.kind = "obj"
               /\ NumericValue(heap[result.ptr]) = packed[k].long

\* the form the size-class table of C2 gives v
SizeClassOf(v) ==
    IF High(v, 2, 0) /\ v[1] <= 127 THEN <<v[1]>>
    ELSE IF High(v, 2, 0) THEN <<204, v[1]>>
    ELSE IF High(v, 3, 0) THEN <<205, v[1], v[2]>>
    ELSE IF High(v, 5, 0) THEN <<206, v[1], v[2], v[3], v[4]>>
    ELSE IF v[8] < 128 THEN <<207>> \o v
    ELSE IF High(v, 2, 255) /\ v[1] >= 224 THEN <<224 + (v[1] % 32)>>
    ELSE IF High(v, 2, 255) /\ v[1] >= 128 THEN <<208, v[1]>>
    ELSE IF High(v, 3, 255) /\ v[2] >= 128 THEN <<209, v[1], v[2]>>
    ELSE IF High(v, 5, 255) /\ v[4] >= 128 THEN <<210, v[1], v[2], v[3], v[4]>>
    ELSE <<211>> \o v

\* C2: pack(long v) writes the smallest sufficient form: one byte for 0..127
\* and -32..-1, else the tag of the narrowest unsigned (v >= 0) or signed
\* (v < 0) width that holds v, followed by v in that width.
C2_IntegerSizeClass ==
    \A k \in DOMAIN packed :
        packed[k].kind = "long" => Written(k) = SizeClassOf(packed[k].long)

C2_Witness ==
    /\ Len(packed) = 2
    /\ packed[1].long = <<0, 0, 0, 0, 1, 0, 0, 0>>
    /\ packed[2].long = ToLong(-33)
    /\ Len(stream) = 11

\* tag bytes that are neither dedicated tags nor in a fix range
ReservedTags == {193} \cup (196..201) \cup (212..217)

\* C3: an unpack() that reads a reserved tag byte fails with an invalid-format
\* error; it returns neither an Object nor a null pointer.
C3_UnknownTagIsError ==
    (/\ op = "unpack"
     /\ ~eof0
     /\ start < Len(stream)
     /\ stream[start + 1] \in ReservedTags)
        => result.kind = "invalid_format"

\* C4: an unpack() that issues a read wanting more bytes than the stream has
\* left ends with the end-of-stream error at that read: no unpack() frame is
\* entered after it and the caller gets no Object.
C4_TruncationFailsFast ==
    op = "unpack" /\ starved
        => /\ result.kind = "eos"
           /\ result.ptr = 0
           /\ late = 0

C4_Witness ==
    /\ op = "unpack"
    /\ starved
    /\ result.kind = "eos"
    /\ stream = <<146, 1>>
    /\ Len(heap) = mark + 2

\* C5: when unpack() fails, everything allocated during the call has been
\* released by the time the caller sees the error.
C5_NoLeakOnFailure ==
    op = "unpack" /\ result.kind = "eos"
        => \A a \in (mark + 1)..Len(heap) : heap[a].frees > 0

\* C6: getAs<t>() on an Object gives its payload exactly when t is the
\* Object's type and fails with bad_cast otherwise; the Object is unchanged.
C6_TypedAccessChecked ==
    op = "getAs"
        => LET o == access.before
           IN  /\ access.type = o.type
                    => /\ access.out.kind = "value"
                       /\ access.out.val.val = o.val
                       /\ access.out.val.kids = o.kids
                       /\ access.out.val.pairs = o.pairs
                       /\ access.out.val.buf = o.buf
               /\ access.type # o.type
                    => /\ access.out.kind = "bad_cast"
                       /\ access.out.val = NoPayload
               /\ heap[access.ptr] = o

C6_Witness ==
    /\ op = "getAs"
    /\ access.before.type = INTEGER
    /\ access.type = BOOLEAN_T
    /\ access.out.kind = "bad_cast"

\* C7: after the root of a decoded tree is deleted, every node and buffer of
\* the tree has been freed once, and nothing has been freed twice.
C7_ReleaseExactlyOnce ==
    op = "delete"
        => /\ \A a \in Tree(heap, result.ptr) : heap[a].frees = 1
           /\ \A a \in DOMAIN heap : heap[a].frees <= 1

C7_Witness ==
    /\ op = "delete"
    /\ heap[result.ptr].type = MAP
    /\ Len(heap[result.ptr].pairs) = 1
    /\ \E a \in Tree(heap, result.ptr) : heap[a].kind = "buf"
    /\ Cardinality(Tree(heap, result.ptr)) = 4

\* C8: a successful unpack() of the k-th packed value leaves the stream at the
\* end of that value's encoding and returns that value.
C8_ConsumesOneValue ==
    \A k \in DOMAIN packed :
        UnpackedItem(k) /\ packed[k].kind = "long" /\ result.kind = "obj"
            => /\ pos = packed[k].to
               /\ NumericValue(heap[result.ptr]) = packed[k].long

\* the header of a count or length n: one byte up to most, else a tag and a
\* 16-bit or 32-bit field
HeaderOf(n, most, fix, tag16, tag32) ==
    IF n <= most THEN <<fix + n>>
    ELSE IF n <= 65535 THEN <<tag16, n % 256, n \div 256>>
    ELSE <<tag32, n % 256, (n \div 256) % 256, (n \div 65536) % 256,
           n \div 16777216>>

\* C9: the array (map) header for n elements is the byte 0x90|n (0x80|n) up
\* to 15, 0xDC (0xDE) and a 16-bit count up to 65535, 0xDD (0xDF) and a
\* 32-bit count above.
C9_ContainerHeaderSizeClass ==
    \A k \in DOMAIN packed :
        /\ packed[k].kind = "array"
            => Written(k) = HeaderOf(packed[k].n, 15, 144, 220, 221)
        /\ packed[k].kind = "map"
            => Written(k) = HeaderOf(packed[k].n, 15, 128, 222, 223)

C9_Witness ==
    /\ Len(packed) = 1
    /\ packed[1].kind = "array"
    /\ packed[1].n = 65536
    /\ stream = <<221, 0, 0, 1, 0>>

\* C10: pack(data, length) writes the byte 0xA0|length up to 31, 0xDA and a
\* 16-bit length up to 65535, 0xDB and a 32-bit length above, and then
\* exactly the length bytes of data.
C10_RawHeaderSizeClass ==
    \A k \in DOMAIN packed :
        packed[k].kind = "raw"
            => Written(k) = HeaderOf(packed[k].n, 31, 160, 218, 219)
                                \o RawData(packed[k].n)

C10_Witness ==
    /\ Len(packed) = 1
    /\ packed[1].kind = "raw"
    /\ packed[1].n = 65536
    /\ Len(stream) = 65541
    /\ stream[65541] = RawData(65536)[65536]

RECURSIVE SameTree(_, _, _)
\* the Object at p has the shape, the counts, the order and the leaf values of x
SameTree(h, p, x) ==
    /\ p # 0
    /\ h[p].kind = "obj"
    /\ IF x.t = "long"
       THEN /\ h[p].type \in (CHAR..ULONG)
            /\ NumericValue(h[p]) = x.v
       ELSE IF x.t = "seq"
       THEN /\ h[p].type = ARRAY
            /\ Len(h[p].kids) = Len(x.items)
            /\ \A i \in DOMAIN x.items : SameTree(h, h[p].kids[i], x.items[i])
       ELSE /\ h[p].type = MAP
            /\ Len(h[p].pairs) = Len(x.items)
            /\ \A i \in DOMAIN x.items :
                /\ SameTree(h, h[p].pairs[i][1], x.items[i][1])
                /\ SameTree(h, h[p].pairs[i][2], x.items[i][2])

\* C11: unpack applied to the bytes pack(x) wrote for a tree x of sequences,
\* maps and longs returns a tree of the same shape, with the same counts at
\* every level, the children in the same order and equal leaf values.
C11_NestedRoundTrip ==
    \A k \in DOMAIN packed :
        UnpackedItem(k) /\ packed[k].kind = "value"
            => /\ result.kind = "obj"
               /\ SameTree(heap, result.ptr, packed[k].value)

\* C12: unpack applied to what the packer wrote for an empty array, an empty
\* map or a raw of length zero returns an Object (no null pointer, no error)
\* that is an ARRAY, a MAP or a RAW respectively, is not Nil and holds no
\* element and no byte.
C12_EmptyContainers ==
    \A k \in DOMAIN packed :
        UnpackedItem(k) /\ packed[k].kind \in {"array", "map", "raw"}
                        /\ packed[k].n = 0
            => /\ result.kind = "obj"
               /\ result.ptr # 0
               /\ heap[result.ptr].type =
                    (CASE packed[k].kind = "array" -> ARRAY
                       [] packed[k].kind = "map" -> MAP
                       [] packed[k].kind = "raw" -> RAW)
               /\ ~isNil(heap[result.ptr])
               /\ heap[result.ptr].kids = <<>>
               /\ heap[result.ptr].pairs = <<>>
               /\ heap[result.ptr].size = 0
               /\ packed[k].kind = "raw" => heap[heap[result.ptr].buf].val = <<>>

C12_Witness ==
    /\ UnpackedItem(1)
    /\ packed[1].kind = "map"
    /\ packed[1].n = 0
    /\ stream = <<128>>
    /\ result.kind = "obj"
    /\ heap[result.ptr].type = MAP

RECURSIVE Encoding(_)
RECURSIVE Encodings(_, _, _)

\* the encodings of the elements i.. of a container in iteration order, a map
\* entry as its key then its value
Encodings(items, i, pairs) ==
    IF i > Len(items) THEN <<>>
    ELSE (IF pairs
          THEN Encoding(items[i][1]) \o Encoding(items[i][2])
          ELSE Encoding(items[i]))
         \o Encodings(items, i + 1, pairs)

\* what C13 says pack(x) appends: for a long its size-class form, for a
\* container one header carrying the count and then the elements' encodings
Encoding(x) ==
    IF x.t = "long" THEN SizeClassOf(x.v)
    ELSE IF x.t = "seq"
    THEN HeaderOf(Len(x.items), 15, 144, 220, 221) \o Encodings(x.items, 1, FALSE)
    ELSE HeaderOf(Len(x.items), 15, 128, 222, 223) \o Encodings(x.items, 1, TRUE)

\* C13: pack of a container of n elements appends one header carrying n (an
\* array header for plain elements, a map header for key/value entries) and
\* then the encodings of the n elements in iteration order, each map entry as
\* key then value; no header follows an element.
C13_AggregatePackingOrder ==
    \A k \in DOMAIN packed :
        packed[k].kind = "value" => Written(k) = Encoding(packed[k].value)

C13_Witness ==
    /\ Len(packed) = 1
    /\ packed[1].kind = "value"
    /\ packed[1].value =
            MapItem(<<<<LongItem(ToLong(1)), LongItem(ToLong(300))>>,
                      <<LongItem(ToLong(300)), LongItem(ToLong(-40000))>>>>)
    /\ stream = <<130, 1, 205, 44, 1, 205, 44, 1, 210, 192, 99, 255, 255>>

\* the last unpack() on a packing::unpacker began, with the stream readable,
\* where the k-th packed item begins
BaseUnpackedItem(k) ==
    /\ op = "base_unpack"
    /\ ~eof0
    /\ k \in DOMAIN packed
    /\ packed[k].from = start

\* C14: pack of a null pointer or null C string appends the Nil encoding and
\* nothing else (the byte 0xC0 from msgpack_packer, the NIL type tag 0 from
\* packing::packer), and the matching unpacker turns it into an Object whose
\* isNil() is true.
C14_NullPointerPacksNil ==
    \A k \in DOMAIN packed :
        /\ packed[k].kind \in {"pointer", "cstring"} /\ packed[k].n = 0
            => /\ Written(k) = <<192>>
               /\ UnpackedItem(k)
                    => /\ result.kind = "obj"
                       /\ isNil(heap[result.ptr])
                       /\ pos = packed[k].to
        /\ packed[k].kind \in {"base_pointer", "base_cstring"} /\ packed[k].n = 0
            => /\ Written(k) = <<0>>
               /\ BaseUnpackedItem(k)
                    => /\ result.kind = "obj"
                       /\ isNil(heap[result.ptr])
                       /\ pos = packed[k].to

C14_Witness ==
    /\ Len(packed) = 2
    /\ packed[1].kind = "cstring" /\ packed[1].n = 1
    /\ packed[2].kind = "pointer" /\ packed[2].n = 0
    /\ stream = <<162, 104, 105, 192>>
    /\ UnpackedItem(2)
    /\ isNil(heap[result.ptr])

\* the tag and the payload width the generic layer gives each scalar type
GenericTag(kind) ==
    CASE kind = "base_bool" -> 1
      [] kind = "base_int" -> 4
      [] kind = "base_long" -> 5
      [] kind = "base_float" -> 10
      [] kind = "base_double" -> 11
GenericWidth(kind) ==
    CASE kind = "base_bool" -> 1
      [] kind = "base_int" -> 4
      [] kind = "base_long" -> 8
      [] kind = "base_float" -> 4
      [] kind = "base_double" -> 8

\* C17: packing::packer writes a bool, int, long, float or double as one tag
\* byte equal to its object_type and then the value's native bytes, 1+1, 1+4,
\* 1+8, 1+4 and 1+8 bytes whatever the value; packing::unpacker applied to
\* those bytes returns an Object with that tag holding that value.
C17_GenericFixedWidth ==
    \A k \in DOMAIN packed :
        packed[k].kind \in {"base_bool", "base_int", "base_long", "base_float",
                            "base_double"}
            => /\ Written(k) = <<GenericTag(packed[k].kind)>> \o packed[k].arg
               /\ Len(Written(k)) = 1 + GenericWidth(packed[k].kind)
               /\ BaseUnpackedItem(k)
                    => /\ result.kind = "obj"
                       /\ heap[result.ptr].type = GenericTag(packed[k].kind)
                       /\ heap[result.ptr].val = packed[k].arg
                       /\ pos = packed[k].to

C17_Witness ==
    /\ Len(packed) = 2
    /\ packed[1].kind = "base_int" /\ packed[1].arg = <<44, 1, 0, 0>>
    /\ packed[2].kind = "base_double"
    /\ stream = <<4, 44, 1, 0, 0, 11, 0, 0, 0, 0, 0, 0, 240, 63>>
    /\ BaseUnpackedItem(2)
    /\ heap[result.ptr].type = DOUBLE
    /\ heap[result.ptr].val = <<0, 0, 0, 0, 0, 0, 240, 63>>

\* the Object at q is the decoded m-th value of a stream of the given pattern
IsValue(h, q, pattern, m) ==
    LET kind == IF pattern = 0 THEN 0
                ELSE IF pattern = 4 THEN 1 ELSE (m + pattern) % 4
        byte == IF pattern = 0 THEN 7 ELSE m % 128
    IN  /\ q # 0
        /\ h[q].kind = "obj"
        /\ CASE kind = 0 -> h[q].type = UCHAR /\ h[q].val = <<byte>>
             [] kind = 1 -> h[q].type = CHAR /\ h[q].val = <<byte>>
             [] kind = 2 -> /\ h[q].type = ARRAY
                            /\ Len(h[q].kids) = 1
                            /\ h[q].kids[1] # 0
                            /\ h[h[q].kids[1]].type = CHAR
                            /\ h[h[q].kids[1]].val = <<byte>>
             [] kind = 3 -> /\ h[q].type = RAW
                            /\ h[q].size = 1
                            /\ h[q].buf # 0
                            /\ h[h[q].buf].val = <<byte>>

\* C15: unpack of an array header of any form declaring n, 0 <= n <= 15,
\* 65535 or 2^32-1 by form, followed by n well-formed values returns an
\* Array holding exactly n children, the i-th child the i-th value read.
C15_ArrayDecode ==
    op = "unpack" /\ packed[1].kind = "array_stream"
        => /\ result.kind = "obj"
           /\ heap[result.ptr].type = ARRAY
           /\ Len(heap[result.ptr].kids) = packed[1].n
           /\ \A i \in 1..packed[1].n :
                IsValue(heap, heap[result.ptr].kids[i], packed[1].pattern, i)

\* C16: unpack of a map header declaring n followed by 2n well-formed values
\* returns a Map holding exactly n entries, the i-th inserted entry pairing
\* the (2i-1)-th value read, as key, with the (2i)-th; entries with equal
\* keys are all kept.
C16_MapDecode ==
    op = "unpack" /\ packed[1].kind = "map_stream"
        => /\ result.kind = "obj"
           /\ heap[result.ptr].type = MAP
           /\ Len(heap[result.ptr].pairs) = packed[1].n
           /\ \A i \in 1..packed[1].n :
                /\ IsValue(heap, heap[result.ptr].pairs[i][1],
                           packed[1].pattern, 2 * i - 1)
                /\ IsValue(heap, heap[result.ptr].pairs[i][2],
                           packed[1].pattern, 2 * i)

\* the bytes of the length header at the start of the stream, as the layer
\* that did the last unpack reads it; 0 when there is no complete one
HeaderLength ==
    IF op = "unpack"
    THEN IF stream[1] \in {220, 222} /\ Len(stream) >= 3 THEN 3
         ELSE IF stream[1] \in {219, 221, 223} /\ Len(stream) >= 5 THEN 5
         ELSE 0
    ELSE IF op = "base_unpack" /\ stream[1] \in {12, 13, 14} /\ Len(stream) >= 9
    THEN 9
    ELSE 0

\* the int handed to unpackRaw, unpackArray or unpackMap for that header
HandedSize ==
    CASE HeaderLength = 3 -> S16(SubSeq(stream, 2, 3))
      [] HeaderLength = 5 -> S32(SubSeq(stream, 2, 5))
      [] HeaderLength = 9 -> S32(SubSeq(stream, 2, 5))
      [] OTHER -> 0

\* C18: when the size handed to unpackRaw, unpackArray or unpackMap is
\* negative, unpack returns a null pointer: no error is raised, nothing is
\* allocated, and the header bytes read stay consumed.
C18_NegativeLengthIsNull ==
    op \in {"unpack", "base_unpack"} /\ HandedSize < 0
        => /\ result.kind = "null"
           /\ result.ptr = 0
           /\ heap = <<>>
           /\ pos = HeaderLength

C18_Witness ==
    /\ op = "unpack"
    /\ stream = <<219, 0, 0, 0, 128, 1, 2>>
    /\ HandedSize < 0
    /\ result.kind = "null"
    /\ pos = 5

\* C19: in the tree a successful unpack returns, no Array holds a null child
\* and no Map entry a null key or a null value.
C19_EveryChildIsObject ==
    op = "unpack" /\ result.kind = "obj"
        => \A a \in Tree(heap, result.ptr) :
            /\ \A i \in DOMAIN heap[a].kids : heap[a].kids[i] # 0
            /\ \A i \in DOMAIN heap[a].pairs :
                heap[a].pairs[i][1] # 0 /\ heap[a].pairs[i][2] # 0

\* the tests of msgpack_unpacker::unpack that the tag byte t satisfies
Matching(t) ==
    (IF t \in SwitchTags THEN {"dedicated"} ELSE {})
    \cup (IF IsFixRaw(t) THEN {"fixraw"} ELSE {})
    \cup (IF IsNegativeFixnum(t) THEN {"negative"} ELSE {})
    \cup (IF IsFixArray(t) THEN {"fixarray"} ELSE {})
    \cup (IF IsFixMap(t) THEN {"fixmap"} ELSE {})
    \cup (IF IsFixnum(t) THEN {"fixnum"} ELSE {})

\* the classification C20 states, by value of the tag byte
Classified(t) ==
    IF t \in {192, 194, 195} \cup (202..207) \cup (208..211) \cup (218..223)
    THEN {"dedicated"}
    ELSE IF t \in 128..143 THEN {"fixmap"}
    ELSE IF t \in 144..159 THEN {"fixarray"}
    ELSE IF t \in 160..191 THEN {"fixraw"}
    ELSE IF t \in 224..255 THEN {"negative"}
    ELSE IF t \in 0..127 THEN {"fixnum"}
    ELSE {}

\* the object_type each branch constructs
BranchType(t) ==
    CASE t \in 0..127 -> CHAR
      [] t \in 128..143 -> MAP
      [] t \in 144..159 -> ARRAY
      [] t \in 160..191 -> RAW
      [] t \in 224..255 -> INTEGER
      [] t = 192 -> NIL
      [] t \in {194, 195} -> BOOLEAN_T
      [] t = 202 -> FLOAT
      [] t = 203 -> DOUBLE
      [] t = 204 -> UCHAR
      [] t = 205 -> USHORT
      [] t = 206 -> UINTEGER
      [] t = 207 -> ULONG
      [] t = 208 -> CHAR
      [] t = 209 -> SHORT
      [] t = 210 -> INTEGER
      [] t = 211 -> LONG
      [] t \in {218, 219} -> RAW
      [] t \in {220, 221} -> ARRAY
      [] t \in {222, 223} -> MAP

\* C20: every tag byte satisfies at most one of the tests of unpack (the
\* switch, fix-raw, negative fixnum, fix-array, fix-map, positive fixnum),
\* namely the one its value range names, so the order of the tests does not
\* matter; unpack constructs the Object of that one branch, and takes the
\* final fall-through exactly for the bytes that satisfy none.
C20_TagClassification ==
    op = "unpack" /\ start = 0
        => LET t == stream[1]
           IN  /\ Cardinality(Matching(t)) <= 1
               /\ Matching(t) = Classified(t)
               /\ Matching(t) # {}
                    => result.kind = "obj" /\ heap[result.ptr].type = BranchType(t)
               /\ Matching(t) = {} => result.kind = "null"

C20_Witness ==
    /\ op = "unpack"
    /\ stream[1] = 143
    /\ Matching(143) = {"fixmap"}
    /\ result.kind = "obj"
    /\ Len(heap[result.ptr].pairs) = 15

\* the wire forms of an integer: the two fixnum ranges and the eight tags
IntegerTags == (0..127) \cup (224..255) \cup (204..211)

\* the Object type each integer wire form decodes to
WireType(t) ==
    IF t <= 127 THEN CHAR
    ELSE IF t >= 224 THEN INTEGER
    ELSE CASE t = 204 -> UCHAR
           [] t = 205 -> USHORT
           [] t = 206 -> UINTEGER
           [] t = 207 -> ULONG
           [] t = 208 -> CHAR
           [] t = 209 -> SHORT
           [] t = 210 -> INTEGER
           [] t = 211 -> LONG

\* the Object type the magnitude of the long v leads to
MagnitudeType(v) ==
    IF SLE(ToLong(0), v)
    THEN IF SLE(v, ToLong(127)) THEN CHAR
         ELSE IF SLE(v, ToLong(255)) THEN UCHAR
         ELSE IF SLE(v, ToLong(65535)) THEN USHORT
         ELSE IF SLE(v, <<255, 255, 255, 255, 0, 0, 0, 0>>) THEN UINTEGER
         ELSE ULONG
    ELSE IF SLE(ToLong(-32), v) THEN INTEGER
         ELSE IF SLE(ToLong(-128), v) THEN CHAR
         ELSE IF SLE(ToLong(-32768), v) THEN SHORT
         ELSE IF SLE(<<0, 0, 0, 128, 255, 255, 255, 255>>, v) THEN INTEGER
         ELSE LONG

C22_ExtractionReleasesTemporary ==
    op = "extract"
        => /\ access.ptr # 0 => heap[access.ptr].frees = 1
           /\ access.out.kind = "value" <=> result.kind = "value"

====
